---- MODULE Spec2Model ----
(***************************************************************************)
(* Model of generate.py: a binary tree is written out as a static web     *)
(* site, one directory and one index.html per visited tree position.      *)
(*                                                                         *)
(* Python strings are sequences of one-character strings, so that          *)
(* str.count, os.path.join and the resolution of relative links are        *)
(* computed on the characters.  None is the one-element tuple <<"None">>,  *)
(* which is no string of characters and no Node.                           *)
(***************************************************************************)
EXTENDS Integers, Sequences, FiniteSets, TLC

\* ------------------------------------------------------------------ bounds
\* Generated input trees have at most MaxNodes real nodes.
MaxNodes == 4

\* ------------------------------------------------------------- Python data
None == <<"None">>

\* class Node: value, left, right
Node(value, left, right) == <<value, left, right>>
value(node) == node[1]
left(node) == node[2]
right(node) == node[3]

\* The sample tree of build_example_tree.
build_example_tree ==
    Node(10,
         Node(9, Node(5, None, None), Node(2, None, None)),
         Node(15, Node(-3, None, None),
                  Node(5, None, Node(22, None, None))))

\* ----------------------------------------------------------------- strings
sep == "/"
STR_left == <<"l", "e", "f", "t">>
STR_right == <<"r", "i", "g", "h", "t">>
STR_index_html == <<"i", "n", "d", "e", "x", ".", "h", "t", "m", "l">>
STR_styles_css == <<"s", "t", "y", "l", "e", "s", ".", "c", "s", "s">>
STR_dotdot_slash == <<".", ".", "/">>
STR_parent_link == <<".", ".", "/", "i", "n", "d", "e", "x", ".", "h", "t", "m", "l">>
STR_left_href == <<"l", "e", "f", "t", "/", "i", "n", "d", "e", "x", ".", "h", "t", "m", "l">>
STR_right_href == <<"r", "i", "g", "h", "t", "/", "i", "n", "d", "e", "x", ".", "h", "t", "m", "l">>
STR_tree_site == <<"t", "r", "e", "e", "_", "s", "i", "t", "e">>
STR_Node_ == <<"N", "o", "d", "e", " ">>
STR_Null == <<"N", "u", "l", "l">>
STR_null == <<"n", "u", "l", "l">>
STR_None == <<"N", "o", "n", "e">>
STR_Left == <<"L", "e", "f", "t">>
STR_Right == <<"R", "i", "g", "h", "t">>
STR_Return_to_Parent ==
    <<"R", "e", "t", "u", "r", "n", " ", "t", "o", " ", "P", "a", "r", "e", "n", "t">>

\* s * n
RECURSIVE StrRepeat(_, _)
StrRepeat(s, n) == IF n <= 0 THEN <<>> ELSE s \o StrRepeat(s, n - 1)

\* s.count(c) for a one-character c
StrCount(s, c) == Cardinality({i \in 1..Len(s) : s[i] = c})

Digit(d) == CASE d = 0 -> "0" [] d = 1 -> "1" [] d = 2 -> "2" [] d = 3 -> "3"
              [] d = 4 -> "4" [] d = 5 -> "5" [] d = 6 -> "6" [] d = 7 -> "7"
              [] d = 8 -> "8" [] d = 9 -> "9"

RECURSIVE NatStr(_)
NatStr(n) == IF n < 10 THEN <<Digit(n)>> ELSE NatStr(n \div 10) \o <<Digit(n % 10)>>

\* str(i) of an int, as the f-string "{node.value}" formats it
IntStr(i) == IF i < 0 THEN <<"-">> \o NatStr(0 - i) ELSE NatStr(i)

\* the f-string "{x}" of a str or None
FormatStr(x) == IF x = None THEN STR_None ELSE x

\* truth value of a str or None (None and "" are false)
Truthy(x) == x # None /\ x # <<>>

\* os.path.join(a, b) on POSIX
join(a, b) ==
    IF b # <<>> /\ Head(b) = sep THEN b
    ELSE IF a = <<>> \/ a[Len(a)] = sep THEN a \o b
    ELSE a \o <<sep>> \o b

\* --------------------------------------------------------- path resolution
\* The pieces of s from position start on, cut at the occurrences of c.
RECURSIVE SplitFrom(_, _, _)
SplitFrom(s, c, start) ==
    LET cuts == {i \in start..Len(s) : s[i] = c}
    IN IF cuts = {} THEN <<SubSeq(s, start, Len(s))>>
       ELSE LET first == CHOOSE i \in cuts : \A j \in cuts : i <= j
            IN <<SubSeq(s, start, first - 1)>> \o SplitFrom(s, c, first + 1)

\* s.split(c) for a one-character c
StrSplit(s, c) == SplitFrom(s, c, 1)

STR_dot == <<".">>
STR_dotdot == <<".", ".">>

\* Walks the components of a path from the location loc: "" and "." stay,
\* ".." goes up (the root's parent is the root), a name goes down.
RECURSIVE Walk(_, _)
Walk(loc, comps) ==
    IF comps = <<>> THEN loc
    ELSE LET c == Head(comps)
         IN IF c = <<>> \/ c = STR_dot THEN Walk(loc, Tail(comps))
            ELSE IF c = STR_dotdot
                 THEN IF loc # <<>> /\ loc[Len(loc)] # STR_dotdot /\ loc[Len(loc)] # <<sep>>
                      THEN Walk(SubSeq(loc, 1, Len(loc) - 1), Tail(comps))
                      ELSE IF loc # <<>> /\ loc[Len(loc)] = <<sep>>
                           THEN Walk(loc, Tail(comps))
                           ELSE Walk(Append(loc, c), Tail(comps))
            ELSE Walk(Append(loc, c), Tail(comps))

\* The location a path names: the sequence of directory names from the
\* working directory, or from the root <<"/">> for an absolute path.
Resolve(path) ==
    Walk(IF path # <<>> /\ Head(path) = sep THEN << <<sep>> >> ELSE <<>>,
         StrSplit(path, sep))

\* The location a link href names when followed from a page in directory dir.
ResolveLink(dir, href) == Resolve(join(dir, href))

IsPrefix(p, s) == Len(p) <= Len(s) /\ SubSeq(s, 1, Len(p)) = p

\* ------------------------------------------------------------------- pages
\* get_css_path(depth)
get_css_path(depth) == StrRepeat(STR_dotdot_slash, depth) \o STR_styles_css

\* One <a class="circle-link" href=...>text</a> element.
Anchor(href, text) == [href |-> href, text |-> text]

\* generate_node_page as the variant without null pages writes it: a child
\* link only for a child that is present.
node_page_html_pruned(node, parent_path, depth) ==
    [title |-> STR_Node_ \o IntStr(value(node)),
     stylesheet |-> get_css_path(depth),
     h1 |-> IntStr(value(node)),
     nav |-> (IF left(node) # None THEN <<Anchor(STR_left_href, STR_Left)>> ELSE <<>>)
             \o (IF Truthy(parent_path)
                 THEN <<Anchor(parent_path, STR_Return_to_Parent)>> ELSE <<>>)
             \o (IF right(node) # None THEN <<Anchor(STR_right_href, STR_Right)>> ELSE <<>>)]

\* generate_node_page with the parent link written whether or not there is a
\* parent path.
node_page_html_parent_always(node, parent_path, depth) ==
    [title |-> STR_Node_ \o IntStr(value(node)),
     stylesheet |-> get_css_path(depth),
     h1 |-> IntStr(value(node)),
     nav |-> <<Anchor(STR_left_href, STR_Left),
               Anchor(FormatStr(parent_path), STR_Return_to_Parent),
               Anchor(STR_right_href, STR_Right)>>]

\* The html_content of generate_node_page: title, stylesheet href, h1 and the
\* anchors of the nav element in document order.
node_page_html(node, parent_path, depth) ==
    LET css_rel_path == get_css_path(depth)
        left_link_html == <<Anchor(STR_left_href, STR_Left)>>
        right_link_html == <<Anchor(STR_right_href, STR_Right)>>
        parent_link_html == IF Truthy(parent_path)
                            THEN <<Anchor(parent_path, STR_Return_to_Parent)>>
                            ELSE <<>>
    IN [title |-> STR_Node_ \o IntStr(value(node)),
        stylesheet |-> css_rel_path,
        h1 |-> IntStr(value(node)),
        nav |-> left_link_html \o parent_link_html \o right_link_html]

\* generate_null_page with the nav element of a node page.
null_page_html_with_children(output_dir, parent_path) ==
    [title |-> STR_Null,
     stylesheet |-> get_css_path(StrCount(output_dir, sep)),
     h1 |-> STR_null,
     nav |-> <<Anchor(STR_left_href, STR_Left),
               Anchor(FormatStr(parent_path), STR_Return_to_Parent),
               Anchor(STR_right_href, STR_Right)>>]

\* The html_content of generate_null_page.
null_page_html(output_dir, parent_path) ==
    [title |-> STR_Null,
     stylesheet |-> get_css_path(StrCount(output_dir, sep)),
     h1 |-> STR_null,
     nav |-> <<Anchor(FormatStr(parent_path), STR_Return_to_Parent)>>]

\* The content create_css_file writes (a fixed text).
css_content ==
    [title |-> <<>>, stylesheet |-> <<>>, h1 |-> <<>>, nav |-> <<>>]

\* -------------------------------------------------------------- file system
\* dirs is the set of locations that are directories, files maps the location
\* of every regular file to its content.
NoFiles == [loc \in {} |-> css_content]

\* os.path.exists(path)
exists(ds, fs, path) == Resolve(path) \in ds \union DOMAIN fs

\* os.makedirs(path, exist_ok=True): the directory and its missing ancestors
makedirs(ds, path) ==
    LET loc == Resolve(path)
    IN ds \union {SubSeq(loc, 1, i) : i \in 1..Len(loc)}

\* open(path, "w").write(content): creates or truncates the file
write_file(fs, path, content) ==
    LET loc == Resolve(path)
    IN [l \in DOMAIN fs \union {loc} |-> IF l = loc THEN content ELSE fs[l]]

\* shutil.rmtree(path): the directories left
rmtree_dirs(ds, path) == {d \in ds : ~IsPrefix(Resolve(path), d)}

\* shutil.rmtree(path): the files left
rmtree_files(fs, path) ==
    [l \in {f \in DOMAIN fs : ~IsPrefix(Resolve(path), f)} |-> fs[l]]

\* ------------------------------------------------------------------ inputs
\* Node values: a negative one and one the sample tree holds twice.
Values == {-3, 5}

\* Binary trees of at most n nodes whose root holds v; None is the empty
\* tree.  The two values alternate from level to level, so that siblings hold
\* duplicates and a node's page can be told from its parent's.
RECURSIVE Trees(_, _)
Trees(n, v) ==
    IF n = 0 THEN {None}
    ELSE {None} \union
         UNION {{Node(v, l, r) : l \in Trees(k, CHOOSE w \in Values : w # v),
                                 r \in Trees(n - 1 - k, CHOOSE w \in Values : w # v)}
                : k \in 0..(n - 1)}

RealTrees ==
    (UNION {Trees(MaxNodes, v) : v \in Values} \ {None}) \union {build_example_tree}

\* Output roots given to generate_tree_pages by a caller other than main.
STR_site == <<"s", "i", "t", "e">>
STR_out_site == <<"o", "u", "t", "/", "s", "i", "t", "e">>
STR_abs_site == <<"/", "s", "i", "t", "e">>
OutputRoots == {STR_site, STR_out_site, STR_abs_site}

\* What the output folder may hold before a run: nothing, or stale pages and
\* other files of an earlier use of the folder.
STR_notes == <<"n", "o", "t", "e", "s">>
stale_page ==
    [title |-> STR_Null, stylesheet |-> <<>>, h1 |-> STR_null, nav |-> <<>>]
StaleDirs(root) ==
    makedirs(makedirs({}, join(join(join(root, STR_left), STR_left), STR_left)),
             join(root, STR_notes))
StaleFiles(root) ==
    write_file(
      write_file(
        write_file(NoFiles, join(root, STR_index_html), stale_page),
        join(join(join(join(root, STR_left), STR_left), STR_left), STR_index_html),
        stale_page),
      join(join(root, STR_notes), STR_styles_css), stale_page)

\* ------------------------------------------------------------------- state
VARIABLES
    tree,           \* the tree handed to the run (main: build_example_tree's)
    caller,         \* "main", or "direct" for a call of generate_tree_pages
    output_folder,  \* the output root path
    dirs, files,    \* the file system
    stack,          \* call stack of generate_tree_pages, innermost frame first
    trace,          \* file-system operations of the current run, in order
    pc,             \* position of the caller
    runs,           \* completed runs
    prev_tree       \* the tree of the run before this one, None if there was none

vars == <<tree, caller, output_folder, dirs, files, stack, trace, pc, runs,
          prev_tree>>

\* An operation on the path string path, which names the location loc.
Event(op, path) == [op |-> op, path |-> path, loc |-> Resolve(path)]

\* A frame of generate_tree_pages(node, output_dir, parent_path, depth).
Frame(node, output_dir, parent_path, depth) ==
    [node |-> node, output_dir |-> output_dir, parent_path |-> parent_path,
     depth |-> depth, at |-> "enter"]

Init ==
    /\ caller \in {"main", "direct"}
    /\ tree \in (IF caller = "main" THEN RealTrees ELSE RealTrees \union {None})
    /\ output_folder \in (IF caller = "main" THEN {STR_tree_site} ELSE OutputRoots)
    /\ \E stale \in BOOLEAN :
         /\ dirs = IF stale THEN StaleDirs(output_folder) ELSE {}
         /\ files = IF stale THEN StaleFiles(output_folder) ELSE NoFiles
    /\ stack = <<>>
    /\ trace = <<>>
    /\ pc = IF caller = "main" THEN "rmtree" ELSE "call"
    /\ runs = 0
    /\ prev_tree = None

\* ------------------------------------------------------------------- main
\* main without lines 221-222: the old site folder is kept.
MainRmtree_keep ==
    /\ pc = "rmtree"
    /\ pc' = "makedirs"
    /\ UNCHANGED <<tree, caller, output_folder, dirs, files, trace, stack, runs, prev_tree>>

\* main, lines 221-222: remove the old site folder if it exists
MainRmtree ==
    /\ pc = "rmtree"
    /\ IF exists(dirs, files, output_folder)
       THEN /\ dirs' = rmtree_dirs(dirs, output_folder)
            /\ files' = rmtree_files(files, output_folder)
            /\ trace' = Append(trace, Event("rmtree", output_folder))
       ELSE UNCHANGED <<dirs, files, trace>>
    /\ pc' = "makedirs"
    /\ UNCHANGED <<tree, caller, output_folder, stack, runs, prev_tree>>

\* main, line 225: create the output folder again
MainMakedirs ==
    /\ pc = "makedirs"
    /\ dirs' = makedirs(dirs, output_folder)
    /\ trace' = Append(trace, Event("makedirs", output_folder))
    /\ pc' = "css"
    /\ UNCHANGED <<tree, caller, output_folder, files, stack, runs, prev_tree>>

\* create_css_file writing "styles.css" without joining it to the output folder.
create_css_file_in_cwd ==
    /\ pc = "css"
    /\ files' = write_file(files, STR_styles_css, css_content)
    /\ trace' = Append(trace, Event("write", STR_styles_css))
    /\ pc' = "generate"
    /\ UNCHANGED <<tree, caller, output_folder, dirs, stack, runs, prev_tree>>

\* main, line 228, and create_css_file
create_css_file ==
    /\ pc = "css"
    /\ files' = write_file(files, join(output_folder, STR_styles_css), css_content)
    /\ trace' = Append(trace, Event("write", join(output_folder, STR_styles_css)))
    /\ pc' = "generate"
    /\ UNCHANGED <<tree, caller, output_folder, dirs, stack, runs, prev_tree>>

\* main, line 232: generate_tree_pages(root, output_folder, parent_path=None, depth=0)
MainGenerate ==
    /\ pc = "generate"
    /\ stack' = <<Frame(tree, output_folder, None, 0)>>
    /\ pc' = "running"
    /\ UNCHANGED <<tree, caller, output_folder, dirs, files, trace, runs, prev_tree>>

\* A caller other than main: generate_tree_pages(node, output_dir)
DirectGenerate ==
    /\ pc = "call"
    /\ stack' = <<Frame(tree, output_folder, None, 0)>>
    /\ pc' = "running"
    /\ UNCHANGED <<tree, caller, output_folder, dirs, files, trace, runs, prev_tree>>

\* ---------------------------------------------------- generate_tree_pages
top == Head(stack)

\* lines 130-134: a null node gets its directory and a placeholder page
GenerateNull ==
    /\ pc = "running" /\ stack # <<>>
    /\ top.at = "enter" /\ top.node = None
    /\ dirs' = makedirs(dirs, top.output_dir)
    /\ files' = write_file(files, join(top.output_dir, STR_index_html),
                           null_page_html(top.output_dir, top.parent_path))
    /\ trace' = trace \o <<Event("makedirs", top.output_dir),
                           Event("write", join(top.output_dir, STR_index_html))>>
    /\ stack' = Tail(stack)
    /\ UNCHANGED <<tree, caller, output_folder, pc, runs, prev_tree>>

\* lines 136-140: a node gets its directory and its page
GenerateNode ==
    /\ pc = "running" /\ stack # <<>>
    /\ top.at = "enter" /\ top.node # None
    /\ dirs' = makedirs(dirs, top.output_dir)
    /\ files' = write_file(files, join(top.output_dir, STR_index_html),
                           node_page_html(top.node, top.parent_path, top.depth))
    /\ trace' = trace \o <<Event("makedirs", top.output_dir),
                           Event("write", join(top.output_dir, STR_index_html))>>
    /\ stack' = <<[top EXCEPT !.at = "left"]>> \o Tail(stack)
    /\ UNCHANGED <<tree, caller, output_folder, pc, runs, prev_tree>>

\* The left step with the right block's child and directory.
GenerateLeft_takes_right ==
    /\ pc = "running" /\ stack # <<>>
    /\ top.at = "left"
    /\ stack' = <<Frame(right(top.node), join(top.output_dir, STR_right),
                        STR_parent_link, top.depth + 1),
                  [top EXCEPT !.at = "right"]>> \o Tail(stack)
    /\ UNCHANGED <<tree, caller, output_folder, dirs, files, trace, pc, runs, prev_tree>>

\* The left step of the variant without null pages: no call for an absent child.
GenerateLeft_pruned ==
    /\ pc = "running" /\ stack # <<>>
    /\ top.at = "left"
    /\ stack' = (IF left(top.node) # None
                 THEN <<Frame(left(top.node), join(top.output_dir, STR_left),
                              STR_parent_link, top.depth + 1)>>
                 ELSE <<>>)
                \o <<[top EXCEPT !.at = "right"]>> \o Tail(stack)
    /\ UNCHANGED <<tree, caller, output_folder, dirs, files, trace, pc, runs, prev_tree>>

\* lines 142-148: the call for the left subtree (or its null page)
GenerateLeft ==
    /\ pc = "running" /\ stack # <<>>
    /\ top.at = "left"
    /\ LET left_child_path == join(top.output_dir, STR_left)
           left_parent_link == STR_parent_link
           callee == IF left(top.node) # None
                     THEN Frame(left(top.node), left_child_path,
                                left_parent_link, top.depth + 1)
                     ELSE Frame(None, left_child_path,
                                left_parent_link, top.depth + 1)
       IN stack' = <<callee, [top EXCEPT !.at = "right"]>> \o Tail(stack)
    /\ UNCHANGED <<tree, caller, output_folder, dirs, files, trace, pc, runs, prev_tree>>

\* The right step of the variant without null pages: no call for an absent child.
GenerateRight_pruned ==
    /\ pc = "running" /\ stack # <<>>
    /\ top.at = "right"
    /\ stack' = (IF right(top.node) # None
                 THEN <<Frame(right(top.node), join(top.output_dir, STR_right),
                              STR_parent_link, top.depth + 1)>>
                 ELSE <<>>)
                \o <<[top EXCEPT !.at = "return"]>> \o Tail(stack)
    /\ UNCHANGED <<tree, caller, output_folder, dirs, files, trace, pc, runs, prev_tree>>

\* The right step with a parent link that climbs once per level of depth.
GenerateRight_deep_parent ==
    /\ pc = "running" /\ stack # <<>>
    /\ top.at = "right"
    /\ stack' = <<Frame(right(top.node), join(top.output_dir, STR_right),
                        StrRepeat(STR_dotdot_slash, top.depth + 1) \o STR_index_html,
                        top.depth + 1),
                  [top EXCEPT !.at = "return"]>> \o Tail(stack)
    /\ UNCHANGED <<tree, caller, output_folder, dirs, files, trace, pc, runs, prev_tree>>

\* lines 150-156: the call for the right subtree (or its null page)
GenerateRight ==
    /\ pc = "running" /\ stack # <<>>
    /\ top.at = "right"
    /\ LET right_child_path == join(top.output_dir, STR_right)
           right_parent_link == STR_parent_link
           callee == IF right(top.node) # None
                     THEN Frame(right(top.node), right_child_path,
                                right_parent_link, top.depth + 1)
                     ELSE Frame(None, right_child_path,
                                right_parent_link, top.depth + 1)
       IN stack' = <<callee, [top EXCEPT !.at = "return"]>> \o Tail(stack)
    /\ UNCHANGED <<tree, caller, output_folder, dirs, files, trace, pc, runs, prev_tree>>

\* line 156: the call returns after its right subtree
GenerateReturn ==
    /\ pc = "running" /\ stack # <<>>
    /\ top.at = "return"
    /\ stack' = Tail(stack)
    /\ UNCHANGED <<tree, caller, output_folder, dirs, files, trace, pc, runs, prev_tree>>

\* main, lines 234-235, or the return to another caller
Finish ==
    /\ pc = "running" /\ stack = <<>>
    /\ pc' = "done"
    /\ runs' = runs + 1
    /\ UNCHANGED <<tree, caller, output_folder, dirs, files, stack, trace, prev_tree>>

\* main is run once more on what the first run left, with the same tree or
\* with the sample tree.
MainAgain ==
    /\ pc = "done" /\ caller = "main" /\ runs = 1
    /\ tree' \in {tree, build_example_tree, Node(5, None, None)}
    /\ prev_tree' = tree
    /\ trace' = <<>>
    /\ pc' = "rmtree"
    /\ UNCHANGED <<caller, output_folder, dirs, files, stack, runs>>

Next ==
    \/ MainRmtree
    \/ MainMakedirs
    \/ create_css_file
    \/ MainGenerate
    \/ DirectGenerate
    \/ GenerateNull
    \/ GenerateNode
    \/ GenerateLeft
    \/ GenerateRight
    \/ GenerateReturn
    \/ Finish
    \/ MainAgain

Spec == Init /\ [][Next]_vars

\* ------------------------------------------------- vocabulary of the claims
\* A position is the sequence of child names from the root of the tree.
RECURSIVE NodePaths(_)
NodePaths(t) ==
    IF t = None THEN {}
    ELSE {<<>>} \union {<<STR_left>> \o p : p \in NodePaths(left(t))}
                \union {<<STR_right>> \o p : p \in NodePaths(right(t))}

\* The subtree at a position of NodePaths(t), or None one step past it.
RECURSIVE SubtreeAt(_, _)
SubtreeAt(t, p) ==
    IF p = <<>> THEN t
    ELSE SubtreeAt(IF Head(p) = STR_left THEN left(t) ELSE right(t), Tail(p))

\* The positions of the absent children of the real nodes.
NullPaths(t) ==
    {Append(p, STR_left) : p \in {q \in NodePaths(t) : left(SubtreeAt(t, q)) = None}}
    \union
    {Append(p, STR_right) : p \in {q \in NodePaths(t) : right(SubtreeAt(t, q)) = None}}

\* The positions the claims expect a page at; the root position always.
SitePaths(t) == {<<>>} \union NodePaths(t) \union NullPaths(t)

RootLoc == Resolve(output_folder)
LocOf(p) == RootLoc \o p
PageLoc(p) == Append(LocOf(p), STR_index_html)
CssLoc == Append(RootLoc, STR_styles_css)

\* The events of the run that write an index.html, and those that make a directory.
PageWrites ==
    {i \in 1..Len(trace) :
        /\ trace[i].op = "write"
        /\ trace[i].loc[Len(trace[i].loc)] = STR_index_html}
DirEvents == {i \in 1..Len(trace) : trace[i].op = "makedirs"}

\* The directories that received an index.html in this run.
PageDirs ==
    {SubSeq(trace[i].loc, 1, Len(trace[i].loc) - 1) : i \in PageWrites}
WrittenPages == {trace[i].loc : i \in PageWrites}
MadeDirs == {trace[i].loc : i \in DirEvents}

\* The positions whose page the run has written so far.
WrittenPaths ==
    LET written == WrittenPages
    IN {p \in SitePaths(tree) : PageLoc(p) \in written}

\* The path string of the page at a position, as the run wrote it.
PagePathOf(p) ==
    trace[CHOOSE i \in PageWrites : trace[i].loc = PageLoc(p)].path

\* os.path.dirname(path)
StrDirname(path) ==
    LET cuts == {i \in 1..Len(path) : path[i] = sep}
    IN IF cuts = {} THEN <<>>
       ELSE LET last == CHOOSE i \in cuts : \A j \in cuts : j <= i
            IN IF last = 1 THEN <<sep>> ELSE SubSeq(path, 1, last - 1)

\* The location a reference in the page at path page names.
LinkTarget(page, href) == ResolveLink(StrDirname(page), href)

AnchorsWithText(page, text) == {k \in 1..Len(page.nav) : page.nav[k].text = text}

Done == pc = "done"

\* C1: after a run the directories that received an index.html are exactly the
\* root, the positions of the real nodes and one null-page directory for every
\* absent child of a real node; the run makes no other directory, none below a
\* null page; real positions show the node's value and the others "null".
C1_DirectorySet ==
    LET nodes == NodePaths(tree)
        expected == {LocOf(p) : p \in SitePaths(tree)}
        pageDirs == PageDirs
        madeDirs == MadeDirs
    IN /\ pageDirs \subseteq expected
       /\ madeDirs \subseteq expected
       /\ Done =>
           /\ pageDirs = expected
           /\ madeDirs = expected
           /\ expected \subseteq dirs
           /\ caller = "main" => {d \in dirs : IsPrefix(RootLoc, d)} = expected
           /\ \A p \in SitePaths(tree) :
                 files[PageLoc(p)].h1 =
                     IF p \in nodes THEN IntStr(value(SubtreeAt(tree, p)))
                     ELSE STR_null

\* A finished run on a tree with real nodes below the root and absent children
\* two levels down.
C1_Witness ==
    /\ Done /\ tree # None
    /\ \E p \in NullPaths(tree) : Len(p) >= 2 /\ LocOf(p) \in PageDirs
    /\ \E p \in NodePaths(tree) : Len(p) >= 1 /\ LocOf(p) \in PageDirs

\* C2: every generated page at depth d refers to its stylesheet as "../" d
\* times and then "styles.css", which names the styles.css of the output root,
\* whatever the output root path is.
C2_StylesheetByDepth ==
    \A p \in WrittenPaths :
        /\ files[PageLoc(p)].stylesheet =
               StrRepeat(STR_dotdot_slash, Len(p)) \o STR_styles_css
        /\ LinkTarget(PagePathOf(p), files[PageLoc(p)].stylesheet) = CssLoc

\* C3: the parent link of every page below the root, followed from the page's
\* directory, is the index.html of the directory above, which this run wrote
\* for the real node at that position.
C3_ParentLink ==
    LET written == WrittenPaths
        nodes == NodePaths(tree)
    IN \A p \in written :
        p # <<>> =>
            LET page == files[PageLoc(p)]
                up == SubSeq(p, 1, Len(p) - 1)
                parents == AnchorsWithText(page, STR_Return_to_Parent)
            IN /\ Cardinality(parents) = 1
               /\ \A k \in parents :
                     LinkTarget(PagePathOf(p), page.nav[k].href) = PageLoc(up)
               /\ up \in written
               /\ up \in nodes
               /\ files[PageLoc(up)].h1 = IntStr(value(SubtreeAt(tree, up)))

\* Pages two levels down, a real one and a null one, under a root path with a
\* separator in it.
C3_Witness ==
    /\ Done /\ output_folder = STR_out_site
    /\ \E p \in WrittenPaths : Len(p) = 2 /\ p \in NodePaths(tree)
    /\ \E p \in WrittenPaths : Len(p) = 2 /\ p \in NullPaths(tree)

\* The anchors a node page holds for its children, each exactly once.
LeftAnchor == Anchor(STR_left_href, STR_Left)
RightAnchor == Anchor(STR_right_href, STR_Right)
ParentAnchor == Anchor(STR_parent_link, STR_Return_to_Parent)
Holds(page, anchor) == \E k \in 1..Len(page.nav) : page.nav[k] = anchor

\* C4 as stated: a real node's page holds a Left link exactly when the node
\* has a left child and a Right link exactly when it has a right child.
C4_LinksIffChildren ==
    \A p \in WrittenPaths \cap NodePaths(tree) :
        LET page == files[PageLoc(p)]
            node == SubtreeAt(tree, p)
        IN /\ (AnchorsWithText(page, STR_Left) # {}) <=> (left(node) # None)
           /\ (AnchorsWithText(page, STR_Right) # {}) <=> (right(node) # None)

\* C4 amended: a real node's page holds exactly one Left link, to
\* left/index.html, and exactly one Right link, to right/index.html, whether
\* the child is present or absent; after the run the link of an absent child
\* leads to its null page and the link of a present child to the child's page.
C4_LinksAlways ==
    LET nodes == NodePaths(tree)
    IN \A p \in WrittenPaths \cap nodes :
        LET page == files[PageLoc(p)]
            node == SubtreeAt(tree, p)
            lefts == AnchorsWithText(page, STR_Left)
            rights == AnchorsWithText(page, STR_Right)
        IN /\ Cardinality(lefts) = 1 /\ Cardinality(rights) = 1
           /\ Holds(page, LeftAnchor) /\ Holds(page, RightAnchor)
           /\ Done =>
               /\ LinkTarget(PagePathOf(p), STR_left_href) = PageLoc(Append(p, STR_left))
               /\ LinkTarget(PagePathOf(p), STR_right_href) = PageLoc(Append(p, STR_right))
               /\ files[PageLoc(Append(p, STR_left))].h1 =
                     IF left(node) = None THEN STR_null ELSE IntStr(value(left(node)))
               /\ files[PageLoc(Append(p, STR_right))].h1 =
                     IF right(node) = None THEN STR_null ELSE IntStr(value(right(node)))

\* A finished run with a node below the root that has a right child and no left child.
C4_Witness ==
    /\ Done
    /\ \E p \in WrittenPaths \cap NodePaths(tree) :
          /\ Len(p) >= 1
          /\ left(SubtreeAt(tree, p)) = None
          /\ right(SubtreeAt(tree, p)) # None

\* C5: in a run started at a real root every null page shows "null" and holds
\* one link only, the parent link to "../index.html"; null pages are at the
\* positions of absent children and never at the root.
C5_NullPages ==
    tree # None =>
        LET nulls == NullPaths(tree)
        IN \A p \in WrittenPaths :
            LET page == files[PageLoc(p)]
            IN /\ (page.h1 = STR_null \/ page.title = STR_Null) <=> p \in nulls
               /\ p \in nulls =>
                    /\ p # <<>>
                    /\ page.h1 = STR_null
                    /\ page.nav = <<ParentAnchor>>
                    /\ AnchorsWithText(page, STR_Left) = {}
                    /\ AnchorsWithText(page, STR_Right) = {}

\* A finished run under an absolute root with a null page three levels down.
C5_Witness ==
    /\ Done /\ tree # None /\ output_folder = STR_abs_site
    /\ \E p \in WrittenPaths \cap NullPaths(tree) : Len(p) = 3

IsSingleNode(t) == t # None /\ left(t) = None /\ right(t) = None

\* C9 as stated: a single-node tree yields one directory, the output root, and
\* a page with no Left, no Right and no Parent link.
C9_SingleNodeOneDirectory ==
    (Done /\ IsSingleNode(tree)) =>
        /\ PageDirs = {RootLoc}
        /\ MadeDirs = {RootLoc}
        /\ files[PageLoc(<<>>)].nav = <<>>

\* C9 amended: a single-node tree yields three directories: the output root,
\* whose page holds a Left and a Right link and no Parent link, and the null
\* pages left and right, which hold the parent link only.
C9_SingleNodeThreeDirectories ==
    (Done /\ IsSingleNode(tree)) =>
        /\ PageDirs = {RootLoc, LocOf(<<STR_left>>), LocOf(<<STR_right>>)}
        /\ MadeDirs = PageDirs
        /\ files[PageLoc(<<>>)].nav = <<LeftAnchor, RightAnchor>>
        /\ files[PageLoc(<<>>)].h1 = IntStr(value(tree))
        /\ files[PageLoc(<<STR_left>>)].h1 = STR_null
        /\ files[PageLoc(<<STR_left>>)].nav = <<ParentAnchor>>
        /\ files[PageLoc(<<STR_right>>)].h1 = STR_null
        /\ files[PageLoc(<<STR_right>>)].nav = <<ParentAnchor>>

\* A finished call of generate_tree_pages(Node(5), "site").
C9_Witness ==
    /\ Done /\ caller = "direct" /\ output_folder = STR_site
    /\ tree = Node(5, None, None)
    /\ PageLoc(<<>>) \in DOMAIN files

\* C10: after a run started at a real root every link of every page the run
\* wrote, followed from the page's directory, names an index.html the run wrote.
C10_NoDanglingLinks ==
    (Done /\ tree # None) =>
        LET written == WrittenPages
        IN \A i \in PageWrites :
            LET page == files[trace[i].loc]
            IN \A k \in 1..Len(page.nav) :
                  LinkTarget(trace[i].path, page.nav[k].href) \in written

\* A finished run of main on the sample tree.
C10_Witness ==
    /\ Done /\ caller = "main" /\ tree = build_example_tree
    /\ Cardinality(PageWrites) = 17

\* The page a position of the tree t is expected to hold, from t alone.
ExpectedPage(t, p) ==
    LET node == SubtreeAt(t, p)
        css == StrRepeat(STR_dotdot_slash, Len(p)) \o STR_styles_css
    IN IF node = None
       THEN [title |-> STR_Null, stylesheet |-> css, h1 |-> STR_null,
             nav |-> <<ParentAnchor>>]
       ELSE [title |-> STR_Node_ \o IntStr(value(node)), stylesheet |-> css,
             h1 |-> IntStr(value(node)),
             nav |-> IF p = <<>> THEN <<LeftAnchor, RightAnchor>>
                     ELSE <<LeftAnchor, ParentAnchor, RightAnchor>>]

\* C6: after main the output folder holds the stylesheet and the pages of the
\* tree and nothing else, whatever it held before the run: stale files, or the
\* site of an earlier run on another tree.
C6_SameOutputWhateverBefore ==
    (Done /\ caller = "main") =>
        LET paths == SitePaths(tree)
        IN /\ {f \in DOMAIN files : IsPrefix(RootLoc, f)} =
                  {PageLoc(p) : p \in paths} \union {CssLoc}
           /\ {d \in dirs : IsPrefix(RootLoc, d)} = {LocOf(p) : p \in paths}
           /\ files[CssLoc] = css_content
           /\ \A p \in paths : files[PageLoc(p)] = ExpectedPage(tree, p)

\* The second run of main, on a single node, over the site the first run made
\* of the sample tree.
C6_Witness ==
    /\ Done /\ caller = "main" /\ runs = 2
    /\ prev_tree = build_example_tree
    /\ tree = Node(5, None, None)
    /\ trace[1].op = "rmtree"

\* The positions of a tree in the order of a depth-first, left-first walk.
RECURSIVE WalkOrder(_, _)
WalkOrder(t, p) ==
    IF t = None THEN <<p>>
    ELSE <<p>> \o WalkOrder(left(t), Append(p, STR_left))
               \o WalkOrder(right(t), Append(p, STR_right))

IsPageWrite(e) == e.op = "write" /\ e.loc[Len(e.loc)] = STR_index_html

\* C7: a real node's page is written before anything of its left subtree, the
\* left subtree (its null page included) is complete before anything of the
\* right subtree is made, and the pages are written in the one order the tree
\* fixes.
C7_LeftBeforeRight ==
    LET written == WrittenPaths
        paths == SitePaths(tree)
        events == 1..Len(trace)
    IN /\ \A p \in NodePaths(tree) :
            LET own == {i \in events : IsPageWrite(trace[i]) /\ trace[i].loc = PageLoc(p)}
                L == {i \in events : trace[i].op # "rmtree"
                                     /\ IsPrefix(LocOf(Append(p, STR_left)), trace[i].loc)}
                R == {i \in events : trace[i].op # "rmtree"
                                     /\ IsPrefix(LocOf(Append(p, STR_right)), trace[i].loc)}
            IN /\ Cardinality(own) <= 1
               /\ (L \union R # {}) => own # {}
               /\ \A o \in own : \A i \in L \union R : o < i
               /\ \A i \in L : \A j \in R : i < j
               /\ R # {} => \A q \in paths :
                               IsPrefix(Append(p, STR_left), q) => q \in written
       /\ Done =>
            LET pages == SelectSeq(trace, IsPageWrite)
                order == WalkOrder(tree, <<>>)
            IN /\ [k \in 1..Len(pages) |-> pages[k].loc] =
                     [k \in 1..Len(order) |-> PageLoc(order[k])]
               /\ caller = "direct" =>
                     [k \in 1..Len(trace) |-> trace[k].loc] =
                        [k \in 1..(2 * Len(order)) |->
                            IF k % 2 = 1 THEN LocOf(order[(k + 1) \div 2])
                            ELSE PageLoc(order[k \div 2])]

\* A finished walk of the sample tree under a root path with a separator in it.
C7_Witness ==
    /\ Done /\ caller = "direct" /\ output_folder = STR_out_site
    /\ tree = build_example_tree
    /\ Len(trace) = 34

\* The writes of a file named styles.css in this run.
CssWrites ==
    {i \in 1..Len(trace) :
        trace[i].op = "write" /\ trace[i].loc[Len(trace[i].loc)] = STR_styles_css}

\* C8: main writes styles.css once, in the output root, after the root was
\* cleared and made again and before the first page; the walk of the tree
\* writes no styles.css and leaves the one of the root as it is.
C8_StylesheetOnce ==
    LET css == CssWrites
        pages == PageWrites
    IN /\ caller = "direct" => css = {}
       /\ caller = "main" =>
            /\ Cardinality(css) <= 1
            /\ \A i \in css :
                  /\ trace[i].loc = CssLoc
                  /\ \E j \in 1..(i - 1) :
                        trace[j].op = "makedirs" /\ trace[j].loc = RootLoc
                  /\ \A j \in 1..Len(trace) : trace[j].op = "rmtree" => j < i
                  /\ \A k \in pages : i < k
            /\ pages # {} => css # {}
            /\ pc \in {"generate", "running", "done"} =>
                  /\ Cardinality(css) = 1
                  /\ CssLoc \in DOMAIN files
                  /\ files[CssLoc] = css_content

\* A finished first run of main that had an old folder to clear.
C8_Witness ==
    /\ Done /\ caller = "main" /\ runs = 1
    /\ trace[1].op = "rmtree"
    /\ Cardinality(PageWrites) >= 5
    /\ Cardinality(CssWrites) = 1

\* A finished run under a root path with a separator, with a null page in it.
C2_Witness ==
    /\ Done /\ output_folder = STR_out_site
    /\ WrittenPaths \cap NullPaths(tree) # {}

====
